---- MODULE Spec2Model ----
(***************************************************************************)
(* Chord-Progression-Maker: the note-name resolver (note_to_midi) and the  *)
(* chord sequencer (create_midi) of main.py and chord_generator.py.        *)
(*                                                                         *)
(* A note is a Python str; it is modelled as a sequence of one-character   *)
(* strings, so that indexing, slicing, strip() and int() are computed on   *)
(* the characters as the code computes them.                               *)
(***************************************************************************)
EXTENDS Integers, Sequences, FiniteSets, TLC

VARIABLES
    note,            \* resolver: the argument of note_to_midi
    result,          \* resolver: None before the call, then what the call produced
    chord_duration,  \* timing: the chord_duration argument, in eighths of a second
    tempo,           \* timing: the tempo argument (microseconds per beat)
    ticks,           \* timing: None before the computation, then ticks_per_chord
    midi_file,       \* main.py: the content of output_file on disk
    main_call,       \* main.py: the create_midi call of the run and its outcome
    WORKING_MIDI,    \* chord_generator.py: the tracks of the module-level MidiFile
    calls            \* chord_generator.py: the create_midi calls made so far

vars == <<note, result, chord_duration, tempo, ticks, midi_file, main_call,
          WORKING_MIDI, calls>>

\* Python's None, as the value of a variable not yet assigned
None == [kind |-> "none"]

-----------------------------------------------------------------------------
(* Bounds *)

\* longest arbitrary character string handed to note_to_midi
MaxLen == 3
\* octaves written in well-formed notes run from -1 to MaxOctave
MaxOctave == 6
\* longest chord_duration, in eighths of a second
MaxEighths == 32
\* most notes of a hand-made chord, most chords of a hand-made progression
MaxNotes == 2
MaxChords == 2
\* most create_midi calls on the one WORKING_MIDI of chord_generator.py
MaxCalls == 2

-----------------------------------------------------------------------------
(* Python values: the outcome of a call *)

Return(v) == [kind |-> "return", value |-> v]

Raise(msg) == [kind |-> "raise", error |-> "ValueError", msg |-> msg]

-----------------------------------------------------------------------------
(* str methods and int() *)

Whitespace == {" "}

Digits == {"0", "1", "2", "3", "4", "5", "6", "7", "8", "9"}

DigitValue ==
    [d \in Digits |->
        CASE d = "0" -> 0 [] d = "1" -> 1 [] d = "2" -> 2 [] d = "3" -> 3
          [] d = "4" -> 4 [] d = "5" -> 5 [] d = "6" -> 6 [] d = "7" -> 7
          [] d = "8" -> 8 [] d = "9" -> 9]

RECURSIVE lstrip(_)
lstrip(s) ==
    IF s # <<>> /\ Head(s) \in Whitespace THEN lstrip(Tail(s)) ELSE s

RECURSIVE rstrip(_)
rstrip(s) ==
    IF s # <<>> /\ s[Len(s)] \in Whitespace
    THEN rstrip(SubSeq(s, 1, Len(s) - 1))
    ELSE s

\* str.strip(): leading and trailing whitespace removed
strip(s) == rstrip(lstrip(s))

\* str.upper() on one character
upper(c) ==
    CASE c = "a" -> "A" [] c = "b" -> "B" [] c = "c" -> "C" [] c = "d" -> "D"
      [] c = "e" -> "E" [] c = "f" -> "F" [] c = "g" -> "G" [] c = "h" -> "H"
      [] c = "x" -> "X"
      [] OTHER -> c

\* the digits of an int() literal: digits, single underscores only between digits
RECURSIVE digits_ok(_, _)
digits_ok(s, afterDigit) ==
    IF s = <<>> THEN afterDigit
    ELSE IF Head(s) \in Digits THEN digits_ok(Tail(s), TRUE)
    ELSE IF Head(s) = "_" THEN afterDigit /\ Tail(s) # <<>>
                               /\ Tail(s)[1] \in Digits /\ digits_ok(Tail(s), FALSE)
    ELSE FALSE

RECURSIVE digits_value(_, _)
digits_value(s, acc) ==
    IF s = <<>> THEN acc
    ELSE IF Head(s) = "_" THEN digits_value(Tail(s), acc)
    ELSE digits_value(Tail(s), 10 * acc + DigitValue[Head(s)])

\* int() with a wrong fallback: text that is no integer counts as 0
int_lenient(s) ==
    LET t == strip(s)
        signed == t # <<>> /\ t[1] \in {"+", "-"}
        body == IF signed THEN Tail(t) ELSE t
    IN  IF body # <<>> /\ digits_ok(body, FALSE)
        THEN Return(IF signed /\ t[1] = "-"
                    THEN 0 - digits_value(body, 0)
                    ELSE digits_value(body, 0))
        ELSE Return(0)

\* int(s) for a str: whitespace stripped, an optional sign, decimal digits;
\* anything else raises ValueError
int(s) ==
    LET t == strip(s)
        signed == t # <<>> /\ t[1] \in {"+", "-"}
        body == IF signed THEN Tail(t) ELSE t
    IN  IF body # <<>> /\ digits_ok(body, FALSE)
        THEN Return(IF signed /\ t[1] = "-"
                    THEN 0 - digits_value(body, 0)
                    ELSE digits_value(body, 0))
        ELSE Raise("invalid literal for int()")

-----------------------------------------------------------------------------
(* note_to_midi (main.py and chord_generator.py hold the same function) *)

\* the dict note_base
note_base ==
    [k \in {"C", "C#", "D", "D#", "E", "F", "F#", "G", "G#", "A", "A#", "B"} |->
        CASE k = "C" -> 0 [] k = "C#" -> 1 [] k = "D" -> 2 [] k = "D#" -> 3
          [] k = "E" -> 4 [] k = "F" -> 5 [] k = "F#" -> 6 [] k = "G" -> 7
          [] k = "G#" -> 8 [] k = "A" -> 9 [] k = "A#" -> 10 [] k = "B" -> 11]

\* note_base.get(key) is None
note_base_missing(key) == key \notin DOMAIN note_base

\* a flat taken one semitone above the natural note
flat_base_value_raised(natural_value) == (natural_value + 1) % 12

\* base_value of a flat: one semitone below the natural note, modulo 12
flat_base_value(natural_value) == (natural_value - 1) % 12

\* octave 0 taken as the lowest octave
midi_number_from_octave_0(octave, base_value) == 12 * octave + base_value

\* midi_number = 12 * (octave + 1) + base_value
midi_number(octave, base_value) == 12 * (octave + 1) + base_value

\* len(note) >= 3 and note[1] in ['#', 'b']
has_accidental(n) == Len(n) >= 3 /\ n[2] \in {"#", "b"}

note_to_midi(arg) ==
    LET n == strip(arg) IN
    IF Len(n) < 2 THEN Raise("Invalid note")
    ELSE
      LET letter == upper(n[1])
          accidental == IF has_accidental(n) THEN n[2] ELSE ""
          octave_str == IF has_accidental(n)
                        THEN SubSeq(n, 3, Len(n))
                        ELSE SubSeq(n, 2, Len(n))
          octave == int(octave_str)
      IN
        IF octave.kind = "raise" THEN Raise("Invalid octave in note")
        ELSE IF accidental = "b"
        THEN IF note_base_missing(letter) THEN Raise("Invalid note letter")
             ELSE LET natural_value == note_base[letter] IN
                  Return(midi_number(octave.value, flat_base_value(natural_value)))
        ELSE LET key == letter \o accidental IN
             IF note_base_missing(key) THEN Raise("Invalid note")
             ELSE LET base_value == note_base[key] IN
                  Return(midi_number(octave.value, base_value))

-----------------------------------------------------------------------------
(* Python floats.  create_midi computes ticks_per_chord in IEEE-754 double    *)
(* arithmetic: every operation returns the double nearest to the exact       *)
(* result, ties to the even mantissa.  A 53-bit mantissa does not fit the    *)
(* model checker's integers, so naturals are kept as sequences of limbs      *)
(* (least significant first, no leading zero limb).  Only non-negative       *)
(* values in the normal range occur: the durations and tempos are >= 0.      *)

LimbBase == 2 ^ 15

\* the big numbers: limbs, the least significant first, no zero limb on top
Big == Seq(0..(LimbBase - 1))

\* limb i of a, 0 beyond its length
Limb(a, i) == IF i \in 1..Len(a) THEN a[i] ELSE 0

\* a without zero limbs on top
BigTrim[a \in Big] ==
    IF \A i \in 1..Len(a) : a[i] = 0 THEN <<>>
    ELSE SubSeq(a, 1, CHOOSE i \in 1..Len(a) :
                          a[i] # 0 /\ \A j \in (i + 1)..Len(a) : a[j] = 0)

\* an int 0 <= n < 2^31 as limbs
BigOf[n \in Nat] ==
    BigTrim[<<n % LimbBase, (n \div LimbBase) % LimbBase, n \div (LimbBase * LimbBase)>>]

\* limbs below 2^31 as an int
BigToInt[a \in Big] ==
    Limb(a, 1) + LimbBase * Limb(a, 2) + LimbBase * LimbBase * Limb(a, 3)

\* a + b: limb i takes a carry when a lower limb overflows and every limb in
\* between is full
BigAdd[a \in Big, b \in Big] ==
    LET n == (IF Len(a) > Len(b) THEN Len(a) ELSE Len(b)) + 1
        sum(i) == Limb(a, i) + Limb(b, i)
        carry(i) == IF \E j \in 1..(i - 1) :
                          /\ sum(j) >= LimbBase
                          /\ \A k \in (j + 1)..(i - 1) : sum(k) = LimbBase - 1
                    THEN 1 ELSE 0
    IN  BigTrim[[i \in 1..n |-> (sum(i) + carry(i)) % LimbBase]]

\* a - b for a >= b: limb i gives a borrow when a lower limb falls short and
\* every limb in between is level
BigSub[a \in Big, b \in Big] ==
    LET diff(i) == Limb(a, i) - Limb(b, i)
        borrow(i) == IF \E j \in 1..(i - 1) :
                           /\ diff(j) < 0
                           /\ \A k \in (j + 1)..(i - 1) : diff(k) = 0
                     THEN 1 ELSE 0
    IN  BigTrim[[i \in 1..Len(a) |-> (diff(i) - borrow(i)) % LimbBase]]

\* a < b
BigLess[a \in Big, b \in Big] ==
    IF Len(a) # Len(b) THEN Len(a) < Len(b)
    ELSE \E i \in 1..Len(a) :
            a[i] < b[i] /\ \A k \in (i + 1)..Len(a) : a[k] = b[k]

\* a * k for a small k: the low parts of the limb products, plus their high
\* parts one limb up
BigMulSmall[a \in Big, k \in 0..(LimbBase - 1)] ==
    BigAdd[BigTrim[[i \in 1..Len(a) |-> (a[i] * k) % LimbBase]],
           BigTrim[<<0>> \o [i \in 1..Len(a) |-> (a[i] * k) \div LimbBase]]]

BigDouble[a \in Big] == BigAdd[a, a]

\* a * 2^k: whole limbs, then the rest of the shift (a limb holds 15 bits)
BigShiftLeft[a \in Big, k \in Nat] ==
    IF a = <<>> THEN <<>>
    ELSE [i \in 1..(k \div 15) |-> 0] \o BigMulSmall[a, 2 ^ (k % 15)]

\* floor(a / 2^k): whole limbs dropped, then every limb takes the low bits of
\* the limb above it
BigShiftRight[a \in Big, k \in Nat] ==
    IF k \div 15 >= Len(a) THEN <<>>
    ELSE BigTrim[[i \in 1..(Len(a) - k \div 15) |->
            (Limb(a, i + k \div 15) \div 2 ^ (k % 15))
              + (Limb(a, i + 1 + k \div 15) % 2 ^ (k % 15)) * 2 ^ (15 - (k % 15))]]

BigIsOdd[a \in Big] == a # <<>> /\ a[1] % 2 = 1

\* the digit of a long division: how many times unit goes into r < 32 * unit
Digit[r \in Big, unit \in Big] ==
    CHOOSE d \in 0..31 :
        /\ ~BigLess[r, BigMulSmall[unit, d]]
        /\ BigLess[r, BigMulSmall[unit, d + 1]]

\* twelve digits in base 32, the most significant first, as limbs: three
\* digits to a limb
PackDigits[digits \in Seq(0..31)] ==
    BigTrim[[j \in 1..4 |-> digits[15 - 3 * j] + 32 * digits[14 - 3 * j]
                              + 1024 * digits[13 - 3 * j]]]

\* long division of r by q > 0 in base 32, r < q * 32^(k+1): digits holds the
\* digits of the quotient found so far, the one at position k comes next
DivDigits[r \in Big, q \in Big, k \in (0 - 1)..11, digits \in Seq(0..31)] ==
    IF k < 0 THEN [quot |-> PackDigits[digits], rem |-> r]
    ELSE LET unit == BigShiftLeft[q, 5 * k]
             digit == Digit[r, unit]
         IN  DivDigits[BigSub[r, BigMulSmall[unit, digit]], q, k - 1,
                       Append(digits, digit)]

\* quotient and remainder of p by q > 0, for p < q * 2^60
BigDivMod[p \in Big, q \in Big] == DivDigits[p, q, 11, <<>>]

\* what a division gives
Divisions == [quot : Big, rem : Big]

\* floor(p / q) as an integer
FloorDiv[p \in Big, q \in Big] == BigToInt[BigDivMod[p, q].quot]

\* the number of bits of a > 0
BitLength[a \in Big] ==
    15 * (Len(a) - 1)
      + (CHOOSE k \in 1..15 : 2 ^ (k - 1) <= a[Len(a)] /\ a[Len(a)] < 2 ^ k)

\* a double: mantissa * 2^exponent, the mantissa 0 or in [2^52, 2^53)
Double(m, e) == [mantissa |-> m, exponent |-> e]

Doubles == [mantissa : Big, exponent : Int]

TwoTo52 == BigShiftLeft[<<1>>, 52]

TwoTo53 == BigShiftLeft[<<1>>, 53]

\* a mantissa that rounding carried to 2^53 is 2^52 one exponent up
Carried[m \in Big, e \in Int] ==
    IF m = TwoTo53 THEN Double(TwoTo52, e + 1) ELSE Double(m, e)

\* round to nearest, ties to the even mantissa: d is the quotient and the
\* remainder of the division by q
Nearest[d \in Divisions, q \in Big, e \in Int] ==
    LET twice == BigDouble[d.rem]
        roundUp == \/ BigLess[q, twice]
                   \/ (twice = q /\ BigIsOdd[d.quot])
    IN  Carried[IF roundUp THEN BigAdd[d.quot, <<1>>] ELSE d.quot, e]

\* (p / q) * 2^e for 2^51 < p / q < 2^53: p is doubled if the quotient would
\* have 52 bits only
InRange[p \in Big, q \in Big, e \in Int] ==
    IF BigLess[p, BigShiftLeft[q, 52]]
    THEN Nearest[BigDivMod[BigDouble[p], q], q, e - 1]
    ELSE Nearest[BigDivMod[p, q], q, e]

\* the double nearest to (p / q) * 2^e: p or q is scaled by the power of two
\* that makes the two differ by 52 bits in length, the quotient is the
\* mantissa, and the remainder decides the rounding
RoundToDouble[p \in Big, q \in Big, e \in Int] ==
    IF p = <<>> THEN Double(<<>>, 0)
    ELSE LET s == 52 + BitLength[q] - BitLength[p] IN
         IF s >= 0 THEN InRange[BigShiftLeft[p, s], q, e - s]
         ELSE InRange[p, BigShiftLeft[q, 0 - s], e - s]

\* float(n) for an int n >= 0
float[n \in Nat] == RoundToDouble[BigOf[n], <<1>>, 0]

\* x / y on floats, y # 0
float_div[x \in Doubles, y \in Doubles] ==
    RoundToDouble[x.mantissa, y.mantissa, x.exponent - y.exponent]

\* x * k for a float x and a small int k
float_mul_int[x \in Doubles, k \in 0..(LimbBase - 1)] ==
    RoundToDouble[BigMulSmall[x.mantissa, k], <<1>>, x.exponent]

\* int(x): the fraction dropped
float_to_int[x \in Doubles] ==
    IF x.exponent >= 0
    THEN BigToInt[BigShiftLeft[x.mantissa, x.exponent]]
    ELSE BigToInt[BigShiftRight[x.mantissa, 0 - x.exponent]]

-----------------------------------------------------------------------------
(* create_midi: the duration of a chord in ticks *)

\* MidiFile().ticks_per_beat
DEFAULT_TICKS_PER_BEAT == 480

\* chord_duration is counted in eighths of a second: every such value is a
\* double, so the argument the code receives is exactly eighths / 8
seconds[eighths \in Nat] == RoundToDouble[BigOf[eighths], <<8>>, 0]

\* beats_per_chord = chord_duration / (tempo / 1e6)
beats_per_chord[duration \in Doubles, tempo_us \in Nat] ==
    float_div[duration, float_div[float[tempo_us], float[1000000]]]

\* ticks_per_chord = int(beats_per_chord * ticks_per_beat)
ticks_per_chord[eighths \in Nat, tempo_us \in Nat] ==
    float_to_int[float_mul_int[beats_per_chord[seconds[eighths], tempo_us],
                               DEFAULT_TICKS_PER_BEAT]]

-----------------------------------------------------------------------------
(* create_midi: the messages of a track.  mido's Message and MetaMessage are  *)
(* records of their type and fields; a track is the sequence of its messages. *)
(* mido rejects a note outside 0..127 when the Message is built; the notes    *)
(* given to create_midi below all resolve inside that range.                  *)

\* mido.MetaMessage('set_tempo', tempo=tempo, time=0)
set_tempo(tempo_us) == [type |-> "set_tempo", tempo |-> tempo_us, time |-> 0]

\* Message('note_on', note=midi_note, velocity=64, time=0)
note_on(midi_note) ==
    [type |-> "note_on", note |-> midi_note, velocity |-> 64, time |-> 0]

\* Message('note_off', note=midi_note, velocity=64, time=0)
note_off(midi_note) ==
    [type |-> "note_off", note |-> midi_note, velocity |-> 64, time |-> 0]

\* the wait written with no delta time
wait_without_time(ticks_per_chord_) ==
    [type |-> "note_off", note |-> 0, velocity |-> 0, time |-> 0]

\* "Wait for the duration of the chord":
\* Message('note_off', note=0, velocity=0, time=ticks_per_chord)
wait(ticks_per_chord_) ==
    [type |-> "note_off", note |-> 0, velocity |-> 0, time |-> ticks_per_chord_]

\* the state of a running create_midi: the track so far and the exception, if
\* one was raised
Running(track) == [track |-> track, exception |-> None]

Aborted(track, exception) == [track |-> track, exception |-> exception]

\* for note in chord: track.append(Message('note_on', ...))
RECURSIVE turn_on(_, _)
turn_on(track, chord) ==
    IF chord = <<>> THEN Running(track)
    ELSE LET midi_note == note_to_midi(Head(chord)) IN
         IF midi_note.kind = "raise" THEN Aborted(track, midi_note)
         ELSE turn_on(Append(track, note_on(midi_note.value)), Tail(chord))

\* for note in chord: track.append(Message('note_off', ...))
RECURSIVE turn_off(_, _)
turn_off(track, chord) ==
    IF chord = <<>> THEN Running(track)
    ELSE LET midi_note == note_to_midi(Head(chord)) IN
         IF midi_note.kind = "raise" THEN Aborted(track, midi_note)
         ELSE turn_off(Append(track, note_off(midi_note.value)), Tail(chord))

\* the notes of a chord released before the wait
play_chord_off_first(track, chord, ticks_per_chord_) ==
    LET on == turn_on(track, chord) IN
    IF on.exception # None THEN on
    ELSE LET off == turn_off(on.track, chord) IN
         IF off.exception # None THEN off
         ELSE Running(Append(off.track, wait(ticks_per_chord_)))

\* the body of "for chord in chords": the notes on, the wait, the notes off
play_chord(track, chord, ticks_per_chord_) ==
    LET on == turn_on(track, chord) IN
    IF on.exception # None THEN on
    ELSE turn_off(Append(on.track, wait(ticks_per_chord_)), chord)

\* for chord in chords
RECURSIVE play_chords(_, _, _)
play_chords(track, chords, ticks_per_chord_) ==
    IF chords = <<>> THEN Running(track)
    ELSE LET played == play_chord(track, Head(chords), ticks_per_chord_) IN
         IF played.exception # None THEN played
         ELSE play_chords(played.track, Tail(chords), ticks_per_chord_)

\* what create_midi does to its track from "Set tempo" to the end of the loop
fill_track(chords, ticks_per_chord_, tempo_us) ==
    play_chords(<<set_tempo(tempo_us)>>, chords, ticks_per_chord_)

\* a new track put in front of the tracks
add_track_first(tracks, track) == <<track>> \o tracks

\* WORKING_MIDI.tracks.append(track)
add_track(tracks, track) == Append(tracks, track)

-----------------------------------------------------------------------------
(* Inputs of the resolver *)

Letters == {"A", "B", "C", "D", "E", "F", "G"}

LowerLetters == {"a", "b", "c", "d", "e", "f", "g"}

\* characters of the arbitrary strings
Alphabet == {"C", "E", "H", "b", "c", "x", "#", "4", "1", "-", "+", "_", " "}

RECURSIVE Strings(_)
Strings(n) ==
    IF n = 0 THEN {<<>>}
    ELSE LET shorter == Strings(n - 1) IN
         shorter \cup {Append(s, c) : s \in {t \in shorter : Len(t) = n - 1},
                                      c \in Alphabet}

Octaves == (0 - 1) .. MaxOctave

DigitChar == [i \in 0..9 |-> CHOOSE d \in Digits : DigitValue[d] = i]

\* str(o) for an int
RECURSIVE NatText(_)
NatText(o) ==
    IF o < 10 THEN <<DigitChar[o]>>
    ELSE Append(NatText(o \div 10), DigitChar[o % 10])

IntText(o) == IF o < 0 THEN <<"-">> \o NatText(0 - o) ELSE NatText(o)

\* text found where the octave is expected that is not the str() of an octave
OddOctaveTexts ==
    { <<>>, <<"x">>, <<"-">>, <<"+", "4">>, <<" ", "4">>, <<"4", " ">>,
      <<"1", "_", "0">>, <<"4", "_">>, <<"_", "4">>, <<"0", "4">>, <<"4", "x">>, <<"b">> }

Pads == { <<>>, <<" ">> }

\* <pad><letter><accidental><octave text><pad>
ComposedNotes ==
    { p1 \o <<l>> \o a \o o \o p2 :
        p1 \in Pads, l \in Letters \cup LowerLetters \cup {"H", "h"},
        a \in { <<>>, <<"#">>, <<"b">> },
        o \in {IntText(i) : i \in Octaves} \cup OddOctaveTexts,
        p2 \in Pads }

NoteInputs == ComposedNotes \cup Strings(MaxLen)

-----------------------------------------------------------------------------
(* The resolver: one call of note_to_midi on an input *)

InitResolve ==
    /\ note \in NoteInputs
    /\ result = None
    /\ chord_duration = 0 /\ tempo = 0 /\ ticks = None
    /\ midi_file = None /\ main_call = None
    /\ WORKING_MIDI = <<>> /\ calls = <<>>

Resolve ==
    /\ result = None
    /\ result' = note_to_midi(note)
    /\ UNCHANGED <<note, chord_duration, tempo, ticks, midi_file, main_call,
                   WORKING_MIDI, calls>>

NextResolve == Resolve

SpecResolve == InitResolve /\ [][NextResolve]_vars

-----------------------------------------------------------------------------
(* The timing computation of create_midi on one (chord_duration, tempo) *)

\* microseconds per beat: the default (120 BPM), and 60e6 / BPM for a few BPM
Tempos == {500000, 1000000, 250000, 600000, 450000, 428571, 333333}

InitTiming ==
    /\ chord_duration \in 0..MaxEighths
    /\ tempo \in Tempos
    /\ ticks = None
    /\ note = <<>> /\ result = None
    /\ midi_file = None /\ main_call = None
    /\ WORKING_MIDI = <<>> /\ calls = <<>>

ComputeTicks ==
    /\ ticks = None
    /\ ticks' = Return(ticks_per_chord[chord_duration, tempo])
    /\ UNCHANGED <<note, result, chord_duration, tempo, midi_file, main_call,
                   WORKING_MIDI, calls>>

NextTiming == ComputeTicks

SpecTiming == InitTiming /\ [][NextTiming]_vars

-----------------------------------------------------------------------------
(* Inputs of the sequencer *)

A3 == <<"A", "3">>

A4 == <<"A", "4">>

B4 == <<"B", "4">>

C4 == <<"C", "4">>

C5 == <<"C", "5">>

D4 == <<"D", "4">>

D5 == <<"D", "5">>

E4 == <<"E", "4">>

F4 == <<"F", "4">>

G4 == <<"G", "4">>

\* the 20 chord progressions of chord_generator.py
progressions ==
    <<
       << <<C4, E4, G4>>, <<F4, A4, C5>>, <<G4, B4, D5>>, <<C4, E4, G4>> >>,
       << <<C4, E4, G4>>, <<A3, C4, E4>>, <<F4, A4, C5>>, <<G4, B4, D5>> >>,
       << <<C4, E4, G4>>, <<G4, B4, D5>>, <<A3, C4, E4>>, <<F4, A4, C5>> >>,
       << <<D4, F4, A4>>, <<G4, B4, D5>>, <<C4, E4, G4>> >>,
       << <<C4, E4, G4>>, <<F4, A4, C5>>, <<A3, C4, E4>>, <<G4, B4, D5>> >>,
       << <<C4, E4, G4>>, <<A3, C4, E4>>, <<D4, F4, A4>>, <<G4, B4, D5>> >>,
       << <<C4, E4, G4>>, <<G4, B4, D5>>, <<C4, E4, G4>>, <<G4, B4, D5>> >>,
       << <<C4, E4, G4>>, <<G4, B4, D5>>, <<F4, A4, C5>>, <<C4, E4, G4>> >>,
       << <<C4, E4, G4>>, <<A3, C4, E4>>, <<E4, G4, B4>>, <<F4, A4, C5>> >>,
       << <<C4, E4, G4>>, <<E4, G4, B4>>, <<F4, A4, C5>>, <<G4, B4, D5>> >>,
       << <<C4, E4, G4>>, <<F4, A4, C5>>, <<C4, E4, G4>>, <<G4, B4, D5>> >>,
       << <<C4, E4, G4>>, <<A3, C4, E4>>, <<D4, F4, A4>>, <<G4, B4, D5>>, <<C4, E4, G4>> >>,
       << <<C4, E4, G4>>, <<F4, A4, C5>>, <<G4, B4, D5>>, <<A3, C4, E4>> >>,
       << <<A3, C4, E4>>, <<F4, A4, C5>>, <<C4, E4, G4>>, <<G4, B4, D5>> >>,
       << <<D4, F4, A4>>, <<A3, C4, E4>>, <<G4, B4, D5>>, <<C4, E4, G4>> >>,
       << <<C4, E4, G4>>, <<G4, B4, D5>>, <<D4, F4, A4>>, <<F4, A4, C5>> >>,
       << <<C4, E4, G4>>, <<D4, F4, A4>>, <<G4, B4, D5>>, <<C4, E4, G4>> >>,
       << <<C4, E4, G4>>, <<A3, C4, E4>>, <<F4, A4, C5>>, <<E4, G4, B4>> >>,
       << <<E4, G4, B4>>, <<A3, C4, E4>>, <<F4, A4, C5>>, <<G4, B4, D5>> >>,
       << <<C4, E4, G4>>, <<G4, B4, D5>>, <<A3, C4, E4>>, <<F4, A4, C5>>, <<G4, B4, D5>> >>
    >>

\* the notes of hand-made chords: middle C, the lowest MIDI note (C-1 is
\* pitch 0) and a note with a letter outside A-G
SeqNotes == { C4, <<"C", "-", "1">>, <<"H", "4">> }

RECURSIVE SeqsUpTo(_, _)
SeqsUpTo(S, n) ==
    IF n = 0 THEN {<<>>}
    ELSE LET shorter == SeqsUpTo(S, n - 1) IN
         shorter \cup {Append(s, x) : s \in {t \in shorter : Len(t) = n - 1}, x \in S}

Chords == SeqsUpTo(SeqNotes, MaxNotes)

Progressions == SeqsUpTo(Chords, MaxChords)

\* (chord_duration in eighths of a second, tempo): no duration, one second and
\* the two seconds of main(), at the default tempo
MainTimings == { <<0, 500000>>, <<8, 500000>>, <<16, 500000>> }

\* chord_generator.py's main(): chord_duration = 2.0, tempo = 500000
GeneratorTimings == { <<16, 500000>> }

\* what chord_generator.py's main() passes, and hand-made progressions of at
\* most one chord
GeneratorProgressions ==
    {progressions[i] : i \in 1..Len(progressions)}
        \cup {p \in Progressions : Len(p) <= 1}

\* ticks_per_chord on the timings of the sequencer
TicksTable ==
    [t \in MainTimings \cup GeneratorTimings |-> ticks_per_chord[t[1], t[2]]]

-----------------------------------------------------------------------------
(* main.py: a run calls create_midi once, on an empty directory *)

SavedFile(tracks) == [kind |-> "file", tracks |-> tracks]

\* a finished call of create_midi: its arguments, the ticks_per_chord it
\* computed, and how it ended
Call(chords, eighths, tempo_us, ticks_per_chord_, outcome) ==
    [chords |-> chords, chord_duration |-> eighths, tempo |-> tempo_us,
     ticks_per_chord |-> ticks_per_chord_, outcome |-> outcome]

InitMain ==
    /\ midi_file = None
    /\ main_call = None
    /\ note = <<>> /\ result = None
    /\ chord_duration = 0 /\ tempo = 0 /\ ticks = None
    /\ WORKING_MIDI = <<>> /\ calls = <<>>

\* create_midi of main.py: the track is filled in a local MidiFile, which is
\* saved after the loop; an exception of note_to_midi leaves the function
\* before mid.save
CreateMidiMain(chords, eighths, tempo_us) ==
    /\ \E ticks_per_chord_ \in {TicksTable[<<eighths, tempo_us>>]} :
       \E run \in {fill_track(chords, ticks_per_chord_, tempo_us)} :
          IF run.exception = None
          THEN /\ midi_file' = SavedFile(<<run.track>>)
               /\ main_call' = Call(chords, eighths, tempo_us, ticks_per_chord_, Return(None))
          ELSE /\ midi_file' = midi_file
               /\ main_call' = Call(chords, eighths, tempo_us, ticks_per_chord_, run.exception)
    /\ UNCHANGED <<note, result, chord_duration, tempo, ticks, WORKING_MIDI, calls>>

\* main() calls create_midi once
NextMain ==
    /\ main_call = None
    /\ \E chords \in Progressions, t \in MainTimings :
          CreateMidiMain(chords, t[1], t[2])

SpecMain == InitMain /\ [][NextMain]_vars

-----------------------------------------------------------------------------
(* chord_generator.py: every create_midi call works on the module's          *)
(* WORKING_MIDI                                                              *)

InitGenerator ==
    /\ WORKING_MIDI = <<>>
    /\ calls = <<>>
    /\ note = <<>> /\ result = None
    /\ chord_duration = 0 /\ tempo = 0 /\ ticks = None
    /\ midi_file = None /\ main_call = None

\* create_midi of chord_generator.py: the new track is appended to
\* WORKING_MIDI.tracks first and filled afterwards, so whatever the loop
\* appended before an exception is in WORKING_MIDI
CreateMidiGenerator(chords, eighths, tempo_us) ==
    /\ Len(calls) < MaxCalls
    /\ \E ticks_per_chord_ \in {TicksTable[<<eighths, tempo_us>>]} :
       \E run \in {fill_track(chords, ticks_per_chord_, tempo_us)} :
          /\ WORKING_MIDI' = add_track(WORKING_MIDI, run.track)
          /\ calls' = Append(calls,
                 Call(chords, eighths, tempo_us, ticks_per_chord_,
                      IF run.exception = None THEN Return(None) ELSE run.exception))
    /\ UNCHANGED <<note, result, chord_duration, tempo, ticks, midi_file, main_call>>

NextGenerator ==
    \E chords \in GeneratorProgressions, t \in GeneratorTimings :
        CreateMidiGenerator(chords, t[1], t[2])

SpecGenerator == InitGenerator /\ [][NextGenerator]_vars

-----------------------------------------------------------------------------
(* Properties of note_to_midi *)

Sharp == <<"#">>

Flat == <<"b">>

\* the semitone offsets within an octave of the twelve sharp-spelled names
SemitoneOffset(name) ==
    CASE name = <<"C">> -> 0 [] name = <<"C", "#">> -> 1 [] name = <<"D">> -> 2
      [] name = <<"D", "#">> -> 3 [] name = <<"E">> -> 4 [] name = <<"F">> -> 5
      [] name = <<"F", "#">> -> 6 [] name = <<"G">> -> 7 [] name = <<"G", "#">> -> 8
      [] name = <<"A">> -> 9 [] name = <<"A", "#">> -> 10 [] name = <<"B">> -> 11

SharpNames ==
    {<<l>> : l \in Letters} \cup {<<l, "#">> : l \in {"C", "D", "F", "G", "A"}}

\* C1: a letter A-G, an optional '#' on C, D, F, G or A and an integer octave o
\* resolve to 12 * (o + 1) + offset; 'C4' resolves to 60; one octave up is 12 more.
C1_PitchFormula ==
    /\ \A name \in SharpNames, o \in Octaves :
          (note = name \o IntText(o) /\ result # None)
             => /\ result = Return(12 * (o + 1) + SemitoneOffset(name))
                /\ note_to_midi(name \o IntText(o + 1)) = Return(result.value + 12)
    /\ (note = <<"C", "4">> /\ result # None) => result = Return(60)

C1_Witness == note = <<"G", "#", "5">> /\ result = Return(80)

\* the sharp and the flat spelling of the five black keys
EnharmonicPairs ==
    { <<"C", "D">>, <<"D", "E">>, <<"F", "G">>, <<"G", "A">>, <<"A", "B">> }

\* C2: the flat spelling of a pitch resolves to the pitch number of its sharp
\* spelling (C#/Db, D#/Eb, F#/Gb, G#/Ab, A#/Bb), in every octave.
C2_Enharmonic ==
    \A pair \in EnharmonicPairs, o \in Octaves :
        (note = <<pair[2]>> \o Flat \o IntText(o) /\ result # None)
           => /\ result.kind = "return"
              /\ result = note_to_midi(<<pair[1]>> \o Sharp \o IntText(o))

C2_Witness == note = <<"D", "b", "4">> /\ result = Return(61)

\* the text of a note after its letter and its accidental, if it has one
OctavePart(n) ==
    IF Len(n) >= 2 /\ n[2] \in {"#", "b"}
    THEN SubSeq(n, 3, Len(n))
    ELSE SubSeq(n, 2, Len(n))

\* text that reads as an integer: an optional sign, then digits, which single
\* underscores may separate; blanks around it do not count
IsIntegerText(s) ==
    LET t == strip(s)
        body == IF t # <<>> /\ t[1] \in {"+", "-"} THEN Tail(t) ELSE t
    IN  /\ body # <<>>
        /\ \A i \in 1..Len(body) :
              \/ body[i] \in Digits
              \/ /\ body[i] = "_"
                 /\ 1 < i /\ i < Len(body)
                 /\ body[i - 1] \in Digits /\ body[i + 1] \in Digits

Malformed(n) ==
    \/ Len(n) < 2
    \/ n[1] \notin Letters \cup LowerLetters
    \/ ~IsIntegerText(OctavePart(n))

C9_FlatIsNaturalMinusOne ==
    \A l \in Letters, o \in Octaves :
        (note = <<l>> \o Flat \o IntText(o) /\ result # None)
           => /\ result.kind = "return"
              /\ result.value = note_to_midi(<<l>> \o IntText(o)).value - 1

-----------------------------------------------------------------------------
(* Properties of the timing computation *)

\* floor(480 * (eighths / 8) * 1000000 / tempo_us) in exact arithmetic
ExactTicks(eighths, tempo_us) ==
    FloorDiv[BigMulSmall[BigMulSmall[BigMulSmall[BigOf[eighths], 480], 1000], 1000],
             BigOf[8 * tempo_us]]

\* C6: ticks_per_chord is the floor of
\* ticks_per_beat * chord_duration * 1000000 / tempo, a non-negative integer;
\* with 480 ticks per beat, tempo 500000 and duration 2.0 it is 1920.
C6_TicksIsFloor ==
    ticks # None =>
        /\ ticks.value >= 0
        /\ ticks.value = ExactTicks(chord_duration, tempo)
        /\ (chord_duration = 16 /\ tempo = 500000) => ticks.value = 1920

-----------------------------------------------------------------------------
(* Properties of the sequencer *)

ValidNote(n) == note_to_midi(n).kind = "return"

ValidChords(chords) ==
    \A i \in 1..Len(chords) : \A j \in 1..Len(chords[i]) : ValidNote(chords[i][j])

Pitch(n) == note_to_midi(n).value

\* the events of a track that carry a note of a chord
IsNoteOn(m, p) == m.type = "note_on" /\ m.note = p /\ m.velocity = 64

IsNoteOff(m, p) == m.type = "note_off" /\ m.note = p /\ m.velocity = 64

\* the duration marker
IsMarker(m) == m.type = "note_off" /\ m.note = 0 /\ m.velocity = 0

\* the number of events of the chords before chord i: two for every note and
\* one marker for every chord
RECURSIVE EventsBefore(_, _)
EventsBefore(chords, i) ==
    IF i <= 1 THEN 0
    ELSE EventsBefore(chords, i - 1) + 2 * Len(chords[i - 1]) + 1

\* the absolute time of the event at position n: the running sum of the delta
\* times
RECURSIVE AbsoluteTime(_, _)
AbsoluteTime(track, n) ==
    IF n = 0 THEN 0 ELSE AbsoluteTime(track, n - 1) + track[n].time

\* after the tempo event the track holds, chord by chord, the NoteOns of the
\* chord in chord order, one marker, and the NoteOffs in chord order
EmitsInOrder(track, chords) ==
    /\ Len(track) = 1 + EventsBefore(chords, Len(chords) + 1)
    /\ track[1].type = "set_tempo"
    /\ \A i \in 1..Len(chords) :
          LET base == 1 + EventsBefore(chords, i)
              k == Len(chords[i])
          IN  /\ \A j \in 1..k : IsNoteOn(track[base + j], Pitch(chords[i][j]))
              /\ IsMarker(track[base + k + 1])
              /\ \A j \in 1..k :
                    IsNoteOff(track[base + k + 1 + j], Pitch(chords[i][j]))

\* C4: on chords of valid notes create_midi does not raise and emits, after the
\* tempo event, for every chord in order its NoteOns in chord order, one
\* marker, its NoteOffs in chord order: N chords of k notes give N * 2k pitched
\* events and N markers, an empty chord its marker only, no chord no event.
C4_EventOrder ==
    (main_call # None /\ ValidChords(main_call.chords)) =>
        /\ main_call.outcome = Return(None)
        /\ midi_file # None
        /\ Len(midi_file.tracks) = 1
        /\ LET track == midi_file.tracks[1]
               chords == main_call.chords
               N == Len(chords)
           IN  /\ EmitsInOrder(track, chords)
               /\ \A k \in 0..MaxNotes :
                     (\A i \in 1..N : Len(chords[i]) = k) =>
                        /\ Cardinality({n \in 1..Len(track) :
                              track[n].type \in {"note_on", "note_off"}
                                 /\ ~IsMarker(track[n])}) = N * 2 * k
                        /\ Cardinality({n \in 1..Len(track) : IsMarker(track[n])}) = N
               /\ N = 0 => Len(track) = 1

C4_Witness ==
    /\ main_call # None
    /\ main_call.chords = << <<C4, <<"C", "-", "1">> >>, <<>> >>
    /\ main_call.outcome = Return(None)
    /\ Len(midi_file.tracks[1]) = 7

\* C5: with P the ticks_per_chord of the call and chords numbered from 0, the
\* absolute time of every NoteOn of chord i is i * P and of every NoteOff
\* (i + 1) * P; with a duration of 0 the call does not raise and the on and
\* off events of every chord coincide.
C5_AbsoluteTimes ==
    (main_call # None /\ ValidChords(main_call.chords)) =>
        /\ main_call.outcome = Return(None)
        /\ midi_file # None
        /\ LET track == midi_file.tracks[1]
               chords == main_call.chords
               P == main_call.ticks_per_chord
           IN  /\ P >= 0
               /\ main_call.chord_duration = 0 => P = 0
               /\ Len(track) = 1 + EventsBefore(chords, Len(chords) + 1)
               /\ \A i \in 1..Len(chords) :
                     LET base == 1 + EventsBefore(chords, i)
                         k == Len(chords[i])
                     IN  \A j \in 1..k :
                            /\ AbsoluteTime(track, base + j) = (i - 1) * P
                            /\ AbsoluteTime(track, base + k + 1 + j) = i * P

C5_Witness ==
    /\ main_call # None
    /\ main_call.chords = << <<C4>>, <<C4, C4>> >>
    /\ main_call.chord_duration = 8 /\ main_call.tempo = 500000
    /\ main_call.outcome = Return(None)
    /\ main_call.ticks_per_chord = 960
    /\ AbsoluteTime(midi_file.tracks[1], 2) = 0
    /\ AbsoluteTime(midi_file.tracks[1], 4) = 960
    /\ AbsoluteTime(midi_file.tracks[1], 5) = 960
    /\ AbsoluteTime(midi_file.tracks[1], 8) = 1920

\* the number of the first n events of a track that are of the type and note
Count(track, n, type, p) ==
    Cardinality({q \in 1..n : track[q].type = type /\ track[q].note = p})

\* C8: the marker is not a NoteOff of any pitch: in every prefix of the events
\* of a track, no pitch (0 included) has more NoteOffs than NoteOns.
C8_MarkerIsNoNoteOff ==
    midi_file # None =>
        LET track == midi_file.tracks[1] IN
        \A n \in 2..Len(track) : \A p \in 0..127 :
            Count(track, n, "note_off", p) <= Count(track, n, "note_on", p)

\* C7: a call of create_midi that a note makes fail leaves no output: main.py
\* saves no file, and WORKING_MIDI holds a track only for the calls that
\* returned.
C7_NoPartialOutput ==
    /\ (main_call # None /\ main_call.outcome.kind = "raise") => midi_file = None
    /\ Len(WORKING_MIDI)
          = Cardinality({i \in 1..Len(calls) : calls[i].outcome.kind = "return"})

\* C10: as long as every call of create_midi returned, WORKING_MIDI holds one
\* track per call in call order, each the set_tempo of the call followed by
\* the events of its chords only; a call that returns appends its track and
\* leaves the earlier tracks as they were.
C10_TracksInCallOrder ==
    /\ [](  (\A i \in 1..Len(calls) : calls[i].outcome.kind = "return")
          => /\ Len(WORKING_MIDI) = Len(calls)
             /\ \A i \in 1..Len(calls) :
                   LET track == WORKING_MIDI[i] IN
                   /\ EmitsInOrder(track, calls[i].chords)
                   /\ track[1] = set_tempo(calls[i].tempo)
                   /\ \A n \in 2..Len(track) :
                         /\ track[n].type # "set_tempo"
                         /\ track[n].time = IF IsMarker(track[n])
                                             THEN calls[i].ticks_per_chord ELSE 0 )
    /\ [][ (/\ Len(calls') = Len(calls) + 1
            /\ calls'[Len(calls')].outcome.kind = "return")
           => /\ Len(WORKING_MIDI') = Len(WORKING_MIDI) + 1
              /\ SubSeq(WORKING_MIDI', 1, Len(WORKING_MIDI)) = WORKING_MIDI ]_vars

C10_Witness ==
    /\ Len(calls) = 2
    /\ calls[1].outcome = Return(None) /\ calls[2].outcome = Return(None)
    /\ calls[1].chords = progressions[1] /\ calls[2].chords = << <<C4>> >>
    /\ Len(WORKING_MIDI) = 2
    /\ Len(WORKING_MIDI[1]) = 1 + EventsBefore(progressions[1], Len(progressions[1]) + 1)
    /\ Len(WORKING_MIDI[2]) = 4

====
